---- MODULE Spec2Model ----
(***************************************************************************)
(* Model of minesweeper.py: the Minesweeper board (ground truth), the      *)
(* Sentence class and the MinesweeperAI knowledge base with its move       *)
(* selectors.  Cells are pairs <<row, col>> with 0-based coordinates.      *)
(* A sentence is a record [cells, count]; the knowledge list is a sequence *)
(* of sentences, so Python's in-place mutation of a Sentence object is an  *)
(* update of the list element at that object's index.                      *)
(***************************************************************************)
EXTENDS Integers, FiniteSets, Sequences, TLC

\* Boards have at most MaxHeight rows, MaxWidth columns and MaxCells cells.
MaxHeight == 3
MaxWidth == 3
MaxCells == 9

\* The games with arbitrary clues stop after MaxCalls calls of add_knowledge.
MaxCalls == 2


\* The value Python's None stands for in a move selector's result.
None == <<>>

VARIABLES
  height,      \* MinesweeperAI.height (= Minesweeper.height)
  width,       \* MinesweeperAI.width  (= Minesweeper.width)
  board,       \* Minesweeper.mines: the cells that hold a mine
  moves_made,  \* MinesweeperAI.moves_made
  mines,       \* MinesweeperAI.mines
  safes,       \* MinesweeperAI.safes
  knowledge,   \* MinesweeperAI.knowledge: sequence of sentences
  call,        \* the last operation called and the value it returned
  run          \* the record of that call if it was add_knowledge: its
               \* arguments, the state it started in and its trace

vars == <<height, width, board, moves_made, mines, safes, knowledge, call, run>>

\* All cells of an h x w board.
Cells(h, w) == (0 .. h - 1) \X (0 .. w - 1)

\* The in-bounds cells within one row and column of cell, cell excluded
\* (the double loop and the bounds test shared by nearby_mines and
\* get_neighbors).
Around(h, w, cell) ==
  { c \in { <<cell[1] + i, cell[2] + j>> : i \in -1 .. 1, j \in -1 .. 1 } :
      /\ c # cell
      /\ 0 <= c[1] /\ c[1] < h /\ 0 <= c[2] /\ c[2] < w }

\* The clues a cell of an h x w board can show: a number of its neighbours.
Clues(h, w, cell) == 0 .. Cardinality(Around(h, w, cell))

\* The mirror images of a placement b of mines on an h x w board: rows
\* reversed, columns reversed, and on a square board rows and columns
\* exchanged.
FlipRows(h, b) == { <<h - 1 - c[1], c[2]>> : c \in b }
FlipColumns(w, b) == { <<c[1], w - 1 - c[2]>> : c \in b }
Transpose(b) == { <<c[2], c[1]>> : c \in b }

Flips(h, w, b) ==
  { b, FlipRows(h, b), FlipColumns(w, b), FlipRows(h, FlipColumns(w, b)) }

Images(h, w, b) ==
  Flips(h, w, b) \cup (IF h = w THEN Flips(h, w, Transpose(b)) ELSE {})

\* A placement as a number, one bit per cell.
RECURSIVE Code(_, _)
Code(w, b) ==
  IF b = {} THEN 0
  ELSE LET c == CHOOSE x \in b : TRUE
       IN 2 ^ (c[1] * w + c[2]) + Code(w, b \ {c})

\* Of the mirror images of a placement, the one with the least code.  The
\* AI treats the four directions alike, so the games on a placement are the
\* mirror images of the games on its canonical image.
Canonical(h, w, b) == \A g \in Images(h, w, b) : Code(w, b) <= Code(w, g)

\* Minesweeper.is_mine
is_mine(b, cell) == cell \in b

\* Minesweeper.nearby_mines
nearby_mines(h, w, b, cell) ==
  Cardinality({ c \in Around(h, w, cell) : is_mine(b, c) })

(***************************************************************************)
(* Sentence                                                                *)
(***************************************************************************)
Sentence(cells, count) == [cells |-> cells, count |-> count]

\* The result of known_mines / known_safes: a cell set, or Python's None
\* (some = FALSE).
Known(cells) == [some |-> TRUE, cells |-> cells]
NoneKnown == [some |-> FALSE, cells |-> {}]

\* Sentence.known_mines
known_mines(s) == IF Cardinality(s.cells) = s.count THEN Known(s.cells) ELSE NoneKnown

\* Sentence.known_safes
known_safes(s) == IF s.count = 0 THEN Known(s.cells) ELSE NoneKnown

\* Python truth value of a result of known_mines / known_safes, as tested by
\* `if sentence.known_mines():` - None is false, and so is an empty set.
Truthy(r) == r.some /\ r.cells # {}

\* Sentence.mark_mine lowering the count whether or not it holds the cell.
SentenceMarkMineAlwaysLowers(s, cell) ==
  [cells |-> s.cells \ {cell}, count |-> s.count - 1]

\* Sentence.mark_mine leaving the last cell of a sentence in place.
SentenceMarkMineKeepsLast(s, cell) ==
  IF cell \in s.cells /\ Cardinality(s.cells) > 1
    THEN [cells |-> s.cells \ {cell}, count |-> s.count - 1]
    ELSE s

\* Sentence.mark_mine without the decrement of line 126.
SentenceMarkMineKeepsCount(s, cell) ==
  IF cell \in s.cells
    THEN [cells |-> s.cells \ {cell}, count |-> s.count]
    ELSE s

\* Sentence.mark_mine
SentenceMarkMine(s, cell) ==
  IF cell \in s.cells
    THEN [cells |-> s.cells \ {cell}, count |-> s.count - 1]
    ELSE s

\* Sentence.mark_safe
SentenceMarkSafe(s, cell) ==
  IF cell \in s.cells
    THEN [cells |-> s.cells \ {cell}, count |-> s.count]
    ELSE s

(***************************************************************************)
(* MinesweeperAI.  An AI state is a record with the object's fields; while *)
(* add_knowledge runs it also carries the locals `inferences` and `final`, *)
(* and a record of the run: the arguments, the fields at the start (pre),  *)
(* the new sentence as created, `trace` (the marking loops and the points  *)
(* passed so far) and `yielded`.                                           *)
(***************************************************************************)
\* MinesweeperAI.mark_mine
mark_mine(ai, cell) ==
  [ai EXCEPT !.mines = @ \cup {cell},
             !.knowledge = [i \in DOMAIN @ |-> SentenceMarkMine(@[i], cell)]]

\* mark_safe without line 181: the sentences are updated, self.safes is not.
mark_safe_sentences_only(ai, cell) ==
  [ai EXCEPT !.knowledge = [i \in DOMAIN @ |-> SentenceMarkSafe(@[i], cell)]]

\* mark_safe taking the cell out of self.mines as well.
mark_safe_discards_mine(ai, cell) ==
  [ai EXCEPT !.safes = @ \cup {cell},
             !.mines = @ \ {cell},
             !.knowledge = [i \in DOMAIN @ |-> SentenceMarkSafe(@[i], cell)]]

\* MinesweeperAI.mark_safe
mark_safe(ai, cell) ==
  [ai EXCEPT !.safes = @ \cup {cell},
             !.knowledge = [i \in DOMAIN @ |-> SentenceMarkSafe(@[i], cell)]]

\* `for c in S: self.mark_mine(c)`, the cells taken in any order.
RECURSIVE MarkMines(_, _)
MarkMines(ai, S) ==
  IF S = {} THEN ai
  ELSE LET c == CHOOSE x \in S : TRUE
       IN MarkMines(mark_mine(ai, c), S \ {c})

\* `for c in S: self.mark_safe(c)`, the cells taken in any order.
RECURSIVE MarkSafes(_, _)
MarkSafes(ai, S) ==
  IF S = {} THEN ai
  ELSE LET c == CHOOSE x \in S : TRUE
       IN MarkSafes(mark_safe(ai, c), S \ {c})

\* `for c in S: self.mark_mine(c)` (kind "mine") or `self.mark_safe(c)`: the
\* states the loop can end in, one for each order in which the set S may be
\* iterated.
RECURSIVE LoopResults(_, _, _)
LoopResults(kind, ai, S) ==
  IF S = {} THEN {ai}
  ELSE UNION { LoopResults(kind,
                           IF kind = "mine" THEN mark_mine(ai, c)
                                            ELSE mark_safe(ai, c),
                           S \ {c}) : c \in S }

\* The fields of an AI state that the object holds between calls.
Fields(ai) ==
  [height |-> ai.height, width |-> ai.width, moves_made |-> ai.moves_made,
   mines |-> ai.mines, safes |-> ai.safes, knowledge |-> ai.knowledge]

\* A marking loop inside add_knowledge: the loop is run and recorded in the
\* trace with the state it started from, so that the states between two
\* marks can be examined for every iteration order of the cell set.
MineLoop(ai, S) ==
  [MarkMines(ai, S) EXCEPT
     !.trace = Append(@, [kind |-> "mine", cells |-> S, from |-> Fields(ai),
                          staged |-> ai.inferences])]

SafeLoop(ai, S) ==
  [MarkSafes(ai, S) EXCEPT
     !.trace = Append(@, [kind |-> "safe", cells |-> S, from |-> Fields(ai),
                          staged |-> ai.inferences])]

\* get_neighbors bringing the count into the range 0 .. len(neighbors).
get_neighbors_clamps_count(ai, cell, count) ==
  LET nb == Around(ai.height, ai.width, cell)
      neighbors == { c \in nb : c \notin ai.safes /\ c \notin ai.mines }
      c == count - Cardinality(nb \cap ai.mines)
  IN [neighbors |-> neighbors,
      count |-> IF c < 0 THEN 0
                ELSE IF c > Cardinality(neighbors) THEN Cardinality(neighbors)
                ELSE c]

\* get_neighbors leaving the known mines among the neighbours.
get_neighbors_keeps_mines(ai, cell, count) ==
  LET nb == Around(ai.height, ai.width, cell)
  IN [neighbors |-> { c \in nb : c \notin ai.safes },
      count |-> count - Cardinality(nb \cap ai.mines)]

\* get_neighbors without the decrement of lines 338-339.
get_neighbors_keeps_count(ai, cell, count) ==
  LET nb == Around(ai.height, ai.width, cell)
  IN [neighbors |-> { c \in nb : c \notin ai.safes /\ c \notin ai.mines },
      count |-> count]

\* MinesweeperAI.get_neighbors: the undetermined neighbours and the count
\* less the neighbours already known to be mines.
get_neighbors(ai, cell, count) ==
  LET nb == Around(ai.height, ai.width, cell)
  IN [neighbors |-> { c \in nb : c \notin ai.safes /\ c \notin ai.mines },
      count |-> count - Cardinality(nb \cap ai.mines)]

\* A point of add_knowledge between two statements, recorded in the trace
\* (a marking loop over no cells) under the name `at`.
Snap(ai, at) ==
  [ai EXCEPT
     !.trace = Append(@, [kind |-> at, cells |-> {}, from |-> Fields(ai),
                          staged |-> ai.inferences])]

\* The branch with the "Safe" conclusion drawn for the mines and the other
\* way round.
ConcludeSwapped(ai, setdiff, cntdiff) ==
  IF Cardinality(setdiff) = cntdiff THEN SafeLoop(ai, setdiff)
  ELSE IF cntdiff = 0 THEN MineLoop(ai, setdiff)
  ELSE Snap([ai EXCEPT !.inferences = Append(@, Sentence(setdiff, cntdiff))],
            "staged")

\* One branch of the pairwise inference (lines 235-247 and 253-265): the
\* difference is all mines, all safe, or a new sentence that is staged.
Conclude(ai, setdiff, cntdiff) ==
  IF Cardinality(setdiff) = cntdiff THEN MineLoop(ai, setdiff)
  ELSE IF cntdiff = 0 THEN SafeLoop(ai, setdiff)
  ELSE Snap([ai EXCEPT !.inferences = Append(@, Sentence(setdiff, cntdiff))],
            "staged")

\* The conclusion just recorded in the trace was drawn from the sentence at
\* position i of the list.
By(ai, i) ==
  LET last == Len(ai.trace)
      e == ai.trace[last]
  IN [ai EXCEPT !.trace[last] =
        [kind |-> e.kind, cells |-> e.cells, from |-> e.from,
         staged |-> e.staged, by |-> i]]

\* The loop of lines 226-265 going over the list a second time.
RECURSIVE InferTwoPasses(_, _, _, _, _)
InferTwoPasses(ai, i, n, newcells, count) ==
  IF i > 2 * Len(ai.knowledge) THEN ai
  ELSE
    LET k == ((i - 1) % Len(ai.knowledge)) + 1
    IN IF ai.knowledge[k] = ai.knowledge[n]
         THEN InferTwoPasses(ai, i + 1, n, newcells, count)
       ELSE
         LET sentence == ai.knowledge[k]
             b1 == IF sentence.cells \subseteq newcells
                     THEN By(Conclude(ai, newcells \ sentence.cells,
                                      count - sentence.count), k)
                     ELSE ai
             again == b1.knowledge[k]
             b2 == IF newcells \subseteq again.cells
                     THEN By(Conclude(b1, again.cells \ newcells,
                                      again.count - count), k)
                     ELSE b1
         IN InferTwoPasses(b2, i + 1, n, newcells, count)

\* The loop `for sentence in self.knowledge` of lines 226-265, from index i.
\* n is the index of newsentence in the list; newcells and count are the
\* call's local values, which no marking changes.
RECURSIVE Infer(_, _, _, _, _)
Infer(ai, i, n, newcells, count) ==
  IF i > Len(ai.knowledge) THEN ai
  ELSE IF ai.knowledge[i] = ai.knowledge[n]
    THEN Infer(ai, i + 1, n, newcells, count)
  ELSE
    LET sentence == ai.knowledge[i]
        b1 == IF sentence.cells \subseteq newcells
                THEN By(Conclude(ai, newcells \ sentence.cells,
                                 count - sentence.count), i)
                ELSE ai
        again == b1.knowledge[i]
        b2 == IF newcells \subseteq again.cells
                THEN By(Conclude(b1, again.cells \ newcells,
                                 again.count - count), i)
                ELSE b1
    IN Infer(b2, i + 1, n, newcells, count)

\* "Remove duplicates" (lines 270-276): the first of equal sentences stays.
RECURSIVE Unique(_, _, _)
Unique(seq, i, unique) ==
  IF i > Len(seq) THEN unique
  ELSE Unique(seq, i + 1,
              IF \E j \in DOMAIN unique : unique[j] = seq[i]
                THEN unique ELSE Append(unique, seq[i]))

\* "Final cleanup" (lines 278-293), from index i.  final lists the indices of
\* the sentences appended to `final`; the list holds the objects, so a
\* sentence appended early is still changed by later marks.  The `continue`
\* statements of lines 284 and 289 are inside the inner `for` loops, so
\* line 291 is reached for every sentence.  The run records in `yielded` the
\* indices of the sentences whose known_mines() or known_safes() gave cells.
RECURSIVE Cleanup(_, _, _)
Cleanup(ai, i, final) ==
  IF i > Len(ai.knowledge)
    THEN [ai EXCEPT !.knowledge = [j \in 1 .. Len(final) |-> ai.knowledge[final[j]]],
                    !.final = final]
  ELSE
    LET km == known_mines(ai.knowledge[i])
        c1 == IF Truthy(km) THEN MineLoop(ai, km.cells) ELSE ai
        ks == known_safes(c1.knowledge[i])
        c2 == IF Truthy(ks) THEN SafeLoop(c1, ks.cells) ELSE c1
        c3 == IF Truthy(km) \/ Truthy(ks)
                THEN [c2 EXCEPT !.yielded = @ \cup {i}] ELSE c2
    IN Cleanup(c3, i + 1, Append(final, i))

\* MinesweeperAI.add_knowledge, as a function of the object's fields: the
\* state it ends in, with the record of the run.
add_knowledge(self, cell, cnt) ==
  LET a0 == [height |-> self.height, width |-> self.width,
             moves_made |-> self.moves_made \cup {cell},
             mines |-> self.mines, safes |-> self.safes,
             knowledge |-> self.knowledge,
             inferences |-> <<>>, final |-> <<>>,
             args |-> [cell |-> cell, count |-> cnt], pre |-> self,
             new |-> Sentence({}, 0), trace |-> <<>>, yielded |-> {}]
      a1 == SafeLoop(a0, {cell})
      gn == get_neighbors(a1, cell, cnt)
      newcells == gn.neighbors
      count == gn.count
      a2 == Snap([a1 EXCEPT !.knowledge = Append(@, Sentence(newcells, count)),
                            !.new = Sentence(newcells, count)],
                 "new")
      n == Len(a2.knowledge)
      a3 == IF count = 0 THEN SafeLoop(a2, newcells) ELSE a2
      a4 == IF Cardinality(newcells) = count THEN MineLoop(a3, newcells) ELSE a3
      a5 == Infer(a4, 1, n, newcells, count)
      a6 == Snap([a5 EXCEPT !.knowledge = @ \o a5.inferences, !.inferences = <<>>],
                 "extended")
      a7 == Snap([a6 EXCEPT !.knowledge = Unique(@, 1, <<>>)], "unique")
  IN Cleanup(a7, 1, <<>>)

\* make_safe_move popping the cell from self.safes itself.
make_safe_move_pops_safes(self) ==
  LET safe_cells == self.safes \ self.moves_made
  IN IF Cardinality(safe_cells) > 0
       THEN { [ret |-> r, self |-> [self EXCEPT !.safes = @ \ {r}]] :
                r \in safe_cells }
       ELSE { [ret |-> None, self |-> self] }

\* make_safe_move choosing among all of self.safes.
make_safe_move_any_safe(self) ==
  IF Cardinality(self.safes) > 0
    THEN { [ret |-> r, self |-> self] : r \in self.safes }
    ELSE { [ret |-> None, self |-> self] }

\* MinesweeperAI.make_safe_move: the possible outcomes (set.pop() takes an
\* arbitrary element of the local set safe_cells).
make_safe_move(self) ==
  LET safe_cells == self.safes \ self.moves_made
  IN IF Cardinality(safe_cells) > 0
       THEN { [ret |-> r, self |-> self] : r \in safe_cells }
       ELSE { [ret |-> None, self |-> self] }

\* make_random_move leaving out the cells known to be safe as well.
make_random_move_unknown_only(self) ==
  LET all_moves == { c \in Cells(self.height, self.width) :
                       /\ c \notin self.mines /\ c \notin self.moves_made
                       /\ c \notin self.safes }
  IN IF Cardinality(all_moves) > 0
       THEN { [ret |-> r, self |-> self] : r \in all_moves }
       ELSE { [ret |-> None, self |-> self] }

\* MinesweeperAI.make_random_move: the possible outcomes of random.choice.
make_random_move(self) ==
  LET all_moves == { c \in Cells(self.height, self.width) :
                       c \notin self.mines /\ c \notin self.moves_made }
  IN IF Cardinality(all_moves) > 0
       THEN { [ret |-> r, self |-> self] : r \in all_moves }
       ELSE { [ret |-> None, self |-> self] }

(***************************************************************************)
(* The state machine                                                       *)
(***************************************************************************)
\* The MinesweeperAI object.
Self ==
  [height |-> height, width |-> width, moves_made |-> moves_made,
   mines |-> mines, safes |-> safes, knowledge |-> knowledge]

\* The object's fields become those of ai; height and width are never
\* assigned after __init__.
Becomes(ai) ==
  /\ moves_made' = ai.moves_made
  /\ mines' = ai.mines
  /\ safes' = ai.safes
  /\ knowledge' = ai.knowledge
  /\ UNCHANGED <<height, width, board>>

\* The value of `run` when the last call was not add_knowledge.
NoRun == [trace |-> <<>>]

\* Minesweeper.__init__ and MinesweeperAI.__init__ for a board of the same
\* size: any size within the bounds, any placement of the mines up to
\* mirror images.
Init ==
  /\ height \in 1 .. MaxHeight
  /\ width \in 1 .. MaxWidth
  /\ height * width <= MaxCells
  /\ board \in SUBSET Cells(height, width)
  /\ Canonical(height, width, board)
  /\ moves_made = {}
  /\ mines = {}
  /\ safes = {}
  /\ knowledge = <<>>
  /\ call = [op |-> "init", ret |-> None]
  /\ run = NoRun

\* The calls of add_knowledge that keep its contract in the current state:
\* cell is in bounds, is not a mine, was not probed before, and count is the
\* board's clue for it.
LegalCalls ==
  { [cell |-> c, count |-> nearby_mines(height, width, board, c)] :
      c \in { x \in Cells(height, width) :
                ~is_mine(board, x) /\ x \notin moves_made } }

\* A call of add_knowledge(cell, count).
AddKnowledge(cell, count) ==
  \E r \in {add_knowledge(Self, cell, count)} :
    /\ Becomes(r)
    /\ call' = [op |-> "add_knowledge", ret |-> None]
    /\ run' = r

\* A move has been proposed by a selector and is not played yet.
Proposed == call.op \in {"make_safe_move", "make_random_move"}

\* A call of make_safe_move(), when the game asks the AI for a move.
MakeSafeMove ==
  /\ ~Proposed
  /\ \E o \in make_safe_move(Self) :
       /\ Becomes(o.self)
       /\ call' = [op |-> "make_safe_move", ret |-> o.ret]
       /\ run' = NoRun

\* A call of make_random_move(), when the game asks the AI for a move.
MakeRandomMove ==
  /\ ~Proposed
  /\ \E o \in make_random_move(Self) :
       /\ Becomes(o.self)
       /\ call' = [op |-> "make_random_move", ret |-> o.ret]
       /\ run' = NoRun

\* The game reveals a safe, unprobed cell and feeds its clue to the AI.
Play ==
  \E k \in LegalCalls : AddKnowledge(k.cell, k.count)

Next == Play

\* The inference engine under correct usage.
Spec == Init /\ [][Next]_vars

\* The same, in a game where the AI is also asked for moves: the cell is the
\* player's choice, or the move the AI has just proposed.
PlayMove ==
  \E k \in LegalCalls :
    /\ Proposed => k.cell = call.ret
    /\ AddKnowledge(k.cell, k.count)

NextMoves == PlayMove \/ MakeSafeMove \/ MakeRandomMove

\* The inference engine and the move selectors.
SpecMoves == Init /\ [][NextMoves]_vars

\* A caller that probes a new cell but passes any clue the cell could show,
\* true or not; the mines of the board play no part.
AnyClue ==
  /\ Cardinality(moves_made) < MaxCalls
  /\ \E cell \in Cells(height, width) \ moves_made :
       \E count \in Clues(height, width, cell) : AddKnowledge(cell, count)

InitAnyClue == Init /\ board = {}

\* The inference engine fed with arbitrary clues.
SpecAnyClue == InitAnyClue /\ [][AnyClue]_vars

\* The last call was a direct call of mark_mine or mark_safe.
MarkedDirectly == call.op \in {"mark_mine", "mark_safe"}

\* A caller may call op(cell) directly between two calls of the game, and
\* once more with the same cell right after.
MayMark(op, cell) ==
  IF MarkedDirectly
    THEN call.op = op /\ run.cell = cell /\ ~run.twice
    ELSE call.op \in {"init", "add_knowledge"}

\* The record of a direct call of mark_mine / mark_safe: its cell, the
\* object's fields when it started, whether it repeats the call before, and
\* the fields when the first of the two calls started.
MarkRun(cell) ==
  [trace |-> <<>>, cell |-> cell, pre |-> Self, twice |-> MarkedDirectly,
   first |-> IF MarkedDirectly THEN run.pre ELSE Self]

\* A direct call of MinesweeperAI.mark_mine(cell).
MarkMine(cell) ==
  /\ MayMark("mark_mine", cell)
  /\ Becomes(mark_mine(Self, cell))
  /\ call' = [op |-> "mark_mine", ret |-> None]
  /\ run' = MarkRun(cell)

\* A direct call of MinesweeperAI.mark_safe(cell).
MarkSafe(cell) ==
  /\ MayMark("mark_safe", cell)
  /\ Becomes(mark_safe(Self, cell))
  /\ call' = [op |-> "mark_safe", ret |-> None]
  /\ run' = MarkRun(cell)

\* The first MaxCalls moves of a game.
Opening == ~MarkedDirectly /\ Cardinality(moves_made) < MaxCalls

NextOps ==
  \/ (Opening /\ PlayMove)
  \/ (~MarkedDirectly /\ MakeSafeMove)
  \/ (~MarkedDirectly /\ MakeRandomMove)
  \/ \E cell \in Cells(height, width) : MarkMine(cell)
  \/ \E cell \in Cells(height, width) : MarkSafe(cell)

\* Every public operation of the AI: the opening of a game with the move
\* selectors, and direct calls of mark_mine and mark_safe.
SpecOps == Init /\ [][NextOps]_vars

(***************************************************************************)
(* The moments of a call                                                   *)
(***************************************************************************)
Range(seq) == { seq[i] : i \in DOMAIN seq }

\* add_knowledge has just returned.
Returned == call.op = "add_knowledge"

\* The state in which a marking loop of the trace is after it has marked the
\* cells T; marks of different cells commute, so these are the states the
\* loop passes through in some iteration order.
Marked(e, T) ==
  [ai |-> IF e.kind = "mine" THEN MarkMines(e.from, T) ELSE MarkSafes(e.from, T),
   staged |-> e.staged]

\* Every state the call of add_knowledge that has just returned passed
\* through: the object's fields and the staged inferences, between any two
\* marks and at the return.
Moments ==
  UNION { { Marked(e, T) : T \in SUBSET e.cells } : e \in Range(run.trace) }
    \cup { [ai |-> Self, staged |-> <<>>] }

(***************************************************************************)
(* Properties                                                              *)
(***************************************************************************)
\* C1: under correct usage, after every call of add_knowledge every cell in
\* `mines` is a mine of the board and no cell in `safes` is one.
C1_Sound ==
  /\ mines \subseteq board
  /\ safes \cap board = {}

\* A call has returned after which the AI knows a mine and knows a cell to be
\* safe that was never probed.
C1_Witness ==
  /\ Returned
  /\ mines # {}
  /\ safes \ moves_made # {}

\* C2: under correct usage `mines` and `safes` are disjoint in every
\* reachable state and in every state a call of add_knowledge passes through.
C2_Disjoint ==
  \A m \in Moments : m.ai.mines \cap m.ai.safes = {}

\* A call that started with a mine known was inside a loop that marks
\* several cells safe, some marked and some not yet.
C2_Witness ==
  /\ Returned
  /\ run.pre.mines # {}
  /\ \E e \in Range(run.trace) :
       \E T \in SUBSET e.cells :
         /\ e.kind = "safe"
         /\ T # {} /\ T # e.cells
         /\ Marked(e, T).ai.safes # e.from.safes

\* The count of a sentence is a possible number of mines among its cells.
CountInRange(s) == 0 <= s.count /\ s.count <= Cardinality(s.cells)

\* C3: under correct usage every sentence of the knowledge list and every
\* staged inference has 0 <= count <= |cells|, between calls and in every
\* state a call of add_knowledge passes through.
C3_CountInRange ==
  \A m \in Moments :
    /\ \A s \in Range(m.ai.knowledge) : CountInRange(s)
    /\ \A s \in Range(m.staged) : CountInRange(s)

\* A call was inside a loop that marks a mine held by a sentence of several
\* cells, lowering its count, while an inference was staged.
C3_Witness ==
  /\ Returned
  /\ \E e \in Range(run.trace) :
       /\ e.kind = "mine"
       /\ e.staged # <<>>
       /\ \E c \in e.cells :
            \E i \in DOMAIN e.from.knowledge :
              /\ c \in e.from.knowledge[i].cells
              /\ Cardinality(e.from.knowledge[i].cells) > 1

\* What a held sentence S and the new sentence N that is its subset or its
\* superset determine: the cells of the larger less those of the smaller,
\* with the difference of the counts.
Difference(S, N) ==
  IF S.cells \subseteq N.cells
    THEN Sentence(N.cells \ S.cells, N.count - S.count)
    ELSE Sentence(S.cells \ N.cells, S.count - N.count)

\* C4: for a call under correct usage, with N the sentence it creates and S
\* a sentence held when the call starts whose cells are a subset or a
\* superset of N's, D and d the differences of cells and counts: if |D| = d
\* all of D is in `mines` at the return, otherwise if d = 0 all of D is in
\* `safes` at the return.
C4_SubsetInference ==
  Returned =>
    \A S \in Range(run.pre.knowledge) :
      (S.cells \subseteq run.new.cells \/ run.new.cells \subseteq S.cells) =>
        LET D == Difference(S, run.new)
        IN IF Cardinality(D.cells) = D.count THEN D.cells \subseteq mines
           ELSE D.count = 0 => D.cells \subseteq safes

\* C5: for any call add_knowledge(cell, count), with U the in-bounds
\* neighbours of cell in neither `safes` nor `mines` when the call starts and
\* c the count less the number of neighbours in `mines`: if c = 0 all of U
\* is in `safes` at the return, and if c = |U| all of U is in `mines` at the
\* return.  On a fresh 3x3 board add_knowledge((1,1), 0) puts the 8
\* neighbours in `safes` and add_knowledge((0,0), 3) the 3 neighbours in
\* `mines`.
C5_ImmediateResolution ==
  Returned =>
    LET nb == Around(height, width, run.args.cell)
        U == nb \ (run.pre.safes \cup run.pre.mines)
        c == run.args.count - Cardinality(nb \cap run.pre.mines)
        fresh == run.pre.moves_made = {} /\ height = 3 /\ width = 3
    IN /\ c = 0 => U \subseteq safes
       /\ c = Cardinality(U) => U \subseteq mines
       /\ (fresh /\ run.args = [cell |-> <<1, 1>>, count |-> 0]) =>
            Cardinality(safes \ {<<1, 1>>}) = 8
       /\ (fresh /\ run.args = [cell |-> <<0, 0>>, count |-> 3]) =>
            mines = {<<0, 1>>, <<1, 0>>, <<1, 1>>}

\* A call has returned whose cell had a neighbour known to be a mine and
\* several undetermined neighbours, all of them marked safe by the call.
C5_Witness ==
  /\ Returned
  /\ LET nb == Around(height, width, run.args.cell)
         U == nb \ (run.pre.safes \cup run.pre.mines)
         m == Cardinality(nb \cap run.pre.mines)
     IN /\ m > 0
        /\ run.args.count = m
        /\ Cardinality(U) >= 2
        /\ U \subseteq safes

\* C6: a sentence whose known_mines() or known_safes() yielded cells in the
\* final sweep of add_knowledge is dropped: it is not in the knowledge list
\* when the call returns.
C6_ResolvedRetired ==
  Returned => \A i \in run.yielded : i \notin Range(run.final)

\* No two entries of a list of sentences are equal.
NoDuplicates(seq) ==
  \A i, j \in DOMAIN seq : i # j => seq[i] # seq[j]

\* C7: whenever add_knowledge returns, no two entries of the knowledge list
\* have equal cells and equal counts.
C7_NoDuplicatesAtReturn ==
  Returned => NoDuplicates(knowledge)

\* The cells make_random_move may choose in the current state: the in-bounds
\* cells in neither `mines` nor `moves_made`.
Eligible == { c \in Cells(height, width) : c \notin mines /\ c \notin moves_made }

\* C8: in every reachable state make_safe_move returns a cell of `safes` not
\* in `moves_made` when there is one, and None exactly when there is none;
\* the value a call has just returned is such a value.
C8_SafeMove ==
  /\ \A o \in make_safe_move(Self) :
       IF safes \ moves_made # {}
         THEN o.ret \in safes /\ o.ret \notin moves_made
         ELSE o.ret = None
  /\ call.op = "make_safe_move" =>
       IF safes \ moves_made # {}
         THEN call.ret \in safes /\ call.ret \notin moves_made
         ELSE call.ret = None

\* make_safe_move has returned a cell while some cells were probed and a
\* mine was known.
C8_Witness ==
  /\ call.op = "make_safe_move"
  /\ call.ret # None
  /\ call.ret \in safes \ moves_made
  /\ moves_made # {}
  /\ mines # {}

\* C9: in every reachable state the possible results of make_random_move are
\* exactly the in-bounds cells in neither `mines` nor `moves_made` (cells of
\* `safes` included), and None exactly when there is no such cell; the value
\* a call has just returned is such a value.
C9_RandomMove ==
  /\ { o.ret : o \in make_random_move(Self) }
       = IF Eligible # {} THEN Eligible ELSE {None}
  /\ call.op = "make_random_move" =>
       IF Eligible # {} THEN call.ret \in Eligible ELSE call.ret = None

\* make_random_move has returned a cell known to be safe and not probed,
\* while a mine was known.
C9_Witness ==
  /\ call.op = "make_random_move"
  /\ call.ret # None
  /\ call.ret \in safes \ moves_made
  /\ mines # {}

\* C10: a call of make_safe_move or make_random_move leaves `mines`,
\* `safes`, `moves_made` and the knowledge list unchanged.
C10_SelectorsReadOnly ==
  [][call'.op \in {"make_safe_move", "make_random_move"} =>
       UNCHANGED <<mines, safes, moves_made, knowledge>>]_vars

\* A selector has returned a move in a state with held sentences, known
\* mines and safe cells not yet probed.
C10_Witness ==
  /\ Proposed
  /\ call.ret # None
  /\ knowledge # <<>>
  /\ mines # {}
  /\ safes \ moves_made # {}

\* b has every cell of `moves_made`, `safes` and `mines` that a has.
Grows(a, b) ==
  /\ a.moves_made \subseteq b.moves_made
  /\ a.safes \subseteq b.safes
  /\ a.mines \subseteq b.mines

\* The three sets grew at every step of the call of add_knowledge that has
\* just returned: from its start to its first loop, at each mark of each
\* loop in any order, from each loop to the next, and to the return.
StepsGrow ==
  LET tr == run.trace
      after(k) == IF k = 0 THEN run.pre ELSE Marked(tr[k], tr[k].cells).ai
  IN /\ \A k \in DOMAIN tr :
          /\ Grows(after(k - 1), tr[k].from)
          /\ \A T \in SUBSET tr[k].cells :
               \A c \in tr[k].cells \ T :
                 Grows(Marked(tr[k], T).ai, Marked(tr[k], T \cup {c}).ai)
     /\ Grows(after(Len(tr)), Self)

\* C11: across every step of every operation (mark_mine, mark_safe,
\* add_knowledge and its inner steps, the move selectors) each of
\* `moves_made`, `safes` and `mines` is a superset of its previous value.
C11_SetsGrow ==
  [][/\ Grows(Self, Self')
     /\ call'.op = "add_knowledge" => StepsGrow']_vars

\* mark_safe was called directly for a cell the AI holds as a mine, after a
\* call of add_knowledge.
C11_Witness ==
  /\ call.op = "mark_safe"
  /\ run.cell \in run.pre.mines
  /\ run.pre.moves_made # {}

\* C12: whenever add_knowledge(cell, count) returns, cell is in `moves_made`
\* and in `safes`, and `moves_made` is a subset of `safes`.
C12_ProbedAreSafe ==
  Returned =>
    /\ run.args.cell \in moves_made
    /\ run.args.cell \in safes
    /\ moves_made \subseteq safes

\* A second call has returned, for a cell that an earlier call had made a
\* mine of the AI.
C12_Witness ==
  /\ Returned
  /\ Cardinality(moves_made) = 2
  /\ run.args.cell \in run.pre.mines

\* C13: calling mark_mine(c) twice in a row gives the same `mines`, `safes`,
\* `moves_made` and sentences as calling it once, and likewise mark_safe(c):
\* the second call changes nothing.
C13_MarkTwice ==
  (MarkedDirectly /\ run.twice) => Self = run.pre

\* mark_mine was called twice for a cell that was no mine of the AI and
\* that a sentence of several cells held, and so was mark_safe.
C13_Witness ==
  /\ MarkedDirectly
  /\ run.twice
  /\ run.cell \notin run.first.mines \cup run.first.safes
  /\ \E s \in Range(run.first.knowledge) :
       run.cell \in s.cells /\ Cardinality(s.cells) > 1

\* C14: Sentence.mark_mine(c) on a sentence holding c removes exactly c and
\* lowers the count by exactly 1, and on a sentence not holding c changes
\* nothing; Sentence.mark_safe(c) removes c if present, nothing else, and
\* never changes the count.  Stated of every sentence of the list across a
\* direct call of MinesweeperAI.mark_mine / mark_safe, which applies the
\* Sentence method to each.
C14_SentenceMarks ==
  MarkedDirectly =>
    /\ Len(knowledge) = Len(run.pre.knowledge)
    /\ \A i \in DOMAIN knowledge :
         LET before == run.pre.knowledge[i]
             now == knowledge[i]
         IN IF call.op = "mark_mine"
              THEN IF run.cell \in before.cells
                     THEN /\ now.cells = before.cells \ {run.cell}
                          /\ now.count = before.count - 1
                     ELSE now = before
              ELSE /\ now.cells = before.cells \ {run.cell}
                   /\ now.count = before.count

\* mark_mine was called directly with a cell that one sentence of several
\* cells held and another sentence with cells did not.
C14_Witness ==
  /\ call.op = "mark_mine"
  /\ \E s \in Range(run.pre.knowledge) :
       run.cell \in s.cells /\ Cardinality(s.cells) > 1 /\ s.count > 0
  /\ \E s \in Range(run.pre.knowledge) :
       run.cell \notin s.cells /\ s.cells # {}

\* The distance between two numbers.
Dist(a, b) == IF a < b THEN b - a ELSE a - b

\* The cells of the board at Chebyshev distance 1 from cell.
Chebyshev1(cell) ==
  { c \in Cells(height, width) :
      /\ Dist(c[1], cell[1]) <= 1
      /\ Dist(c[2], cell[2]) <= 1
      /\ c # cell }

\* C15: the sentence that add_knowledge(cell, count) appends has as cells
\* exactly the in-bounds cells at Chebyshev distance 1 from cell that are in
\* neither `safes` nor `mines` (never cell itself), and as count the given
\* count less the number of in-bounds neighbours of cell in `mines`.
C15_NewSentence ==
  Returned =>
    /\ run.new.cells = Chebyshev1(run.args.cell) \ (run.pre.safes \cup run.pre.mines)
    /\ run.new.count =
         run.args.count - Cardinality(Chebyshev1(run.args.cell) \cap run.pre.mines)
    /\ run.args.cell \notin run.new.cells

\* A call has returned whose cell had a neighbour known to be a mine, a
\* neighbour known to be safe and an undetermined neighbour.
C15_Witness ==
  /\ Returned
  /\ Chebyshev1(run.args.cell) \cap run.pre.mines # {}
  /\ Chebyshev1(run.args.cell) \cap run.pre.safes # {}
  /\ run.new.cells # {}

\* C16: whenever add_knowledge returns, no sentence of the knowledge list
\* holds a cell that is in `safes` or in `mines`.
C16_Propagated ==
  Returned =>
    \A s \in Range(knowledge) : s.cells \cap (safes \cup mines) = {}

\* The conclusions the call of add_knowledge that has just returned drew
\* from pairs of sentences (positions in the trace): the marking loops and
\* the inferences staged by the loop of lines 226-265.
Conclusions ==
  { k \in DOMAIN run.trace : "by" \in DOMAIN run.trace[k] }

\* The cells a conclusion is about: those its loop marks, or those of the
\* inference it stages.
ConcludedCells(k) ==
  LET e == run.trace[k]
  IN IF e.kind = "staged" THEN e.staged[Len(e.staged)].cells ELSE e.cells

Unsaturated(S1, S2) ==
  LET D == S2.cells \ S1.cells
      d == S2.count - S1.count
  IN /\ S1.cells \subseteq S2.cells
     /\ D # {}
     /\ d = 0 \/ d = Cardinality(D)
     /\ D \ (safes \cup mines) # {}

C18_NoValidation ==
  Returned =>
    LET nb == Around(height, width, run.args.cell)
        U == nb \ (run.pre.safes \cup run.pre.mines)
        c == run.args.count - Cardinality(nb \cap run.pre.mines)
    IN /\ call.ret = None
       /\ run.args.cell \in moves_made \cap safes
       /\ (c < 0 \/ c > Cardinality(U)) =>
            /\ run.new = Sentence(U, c)
            /\ \E s \in Range(knowledge) : ~CountInRange(s)

\* A call with a false clue has returned leaving a sentence with a negative
\* count, a sentence with a count above its number of cells, and a cell in
\* both `mines` and `safes`.
C18_Witness ==
  /\ Returned
  /\ \E s \in Range(knowledge) : s.count < 0
  /\ \E s \in Range(knowledge) : s.count > Cardinality(s.cells)
  /\ mines \cap safes # {}

\* C19: the state after add_knowledge does not depend on the order in which
\* the cell sets are iterated.  Every marking loop of a call ends in one and
\* the same state whatever the order of its cells; the statements between
\* the loops iterate over no set, so the states that follow, and the state
\* at the return, are the same as well.
C19_OrderIndependent ==
  Returned =>
    \A e \in Range(run.trace) :
      LoopResults(e.kind, e.from, e.cells) = {Marked(e, e.cells).ai}

\* A call has returned that marked, in one loop, several mines held
\* together by a sentence.
C19_Witness ==
  /\ Returned
  /\ \E e \in Range(run.trace) :
       /\ e.kind = "mine"
       /\ \E s \in Range(e.from.knowledge) :
            Cardinality(s.cells \cap e.cells) >= 2

====
